---- MODULE Spec2Model ----
(***************************************************************************)
(* Model of the Simple RAG system: the Streamlit application (src/app.py)  *)
(* and the command-line application (src/simple_rag.py).  Both keep a list *)
(* of documents, fit a TF-IDF vectorizer over it and rank the documents    *)
(* against a query by cosine similarity.                                   *)
(*                                                                         *)
(* Conventions of the translation:                                         *)
(*  - a text is a sequence of lexemes: maximal runs of whitespace, of      *)
(*    punctuation, or of alphanumeric characters;                          *)
(*  - Python's None, and every value that may be None, is a record with a  *)
(*    field "kind";                                                        *)
(*  - sequences are 1-based: index i of the model is doc_id i-1 of the     *)
(*    code;                                                                *)
(*  - real numbers are fixed-point integers: idf in thousandths, and       *)
(*    normalised weights and similarities in units of 1/Scale.             *)
(***************************************************************************)
EXTENDS Integers, Sequences, FiniteSets, TLC

\* Longest list of files offered to one load, and most documents the
\* command-line loop accepts.
MaxFiles == 2

\* Fixed-point unit of normalised weights and similarity scores.
Scale == 1000

NoneVal == [kind |-> "None"]

Range(s) == {s[i] : i \in 1..Len(s)}

----------------------------------------------------------------------------
\* Texts

\* whitespace lexemes
Whitespace == {" "}

\* the alphanumeric runs of two or more characters, lower-cased; every other
\* lexeme of the texts below is punctuation ("!"), a one-character run ("a")
\* or a capitalised run ("Tell")
LongWords == {"apples", "are", "red", "fruit", "oranges", "citrus",
              "tell", "me", "about"}

\* str.lower() on one lexeme
Lower(l) ==
    CASE l = "Tell" -> "tell"
      [] OTHER -> l

\* text.strip(): leading and trailing whitespace removed
RECURSIVE Strip(_)
Strip(text) ==
    IF text = <<>> THEN text
    ELSE IF Head(text) \in Whitespace THEN Strip(Tail(text))
    ELSE IF text[Len(text)] \in Whitespace THEN Strip(SubSeq(text, 1, Len(text) - 1))
    ELSE text

\* bool(text.strip())
StripNonEmpty(text) == Strip(text) # <<>>

\* TfidfVectorizer's default analyzer: lower-case, then the tokens matching
\* (?u)\b\w\w+\b (alphanumeric runs of at least two characters)
Tokenize(text) ==
    LET low == [i \in 1..Len(text) |-> Lower(text[i])]
    IN SelectSeq(low, LAMBDA l : l \in LongWords)

Count(tokens, t) == Cardinality({i \in 1..Len(tokens) : tokens[i] = t})

T_apples == <<"apples", " ", "are", " ", "red", " ", "fruit">>
T_oranges == <<"oranges", " ", "are", " ", "citrus", " ", "fruit">>
T_blank == <<" ">>
T_punct == <<"!", " ", "a">>
T_undecodable == <<"!">>

Q_empty == <<>>
Q_blank == <<" ">>
Q_unknown == <<"Tell", " ", "me", "!">>
Q_apples == <<"tell", " ", "me", " ", "about", " ", "apples">>

Queries == {Q_empty, Q_blank, Q_unknown, Q_apples}

\* A file: its name (stem and extension), its content, whether its bytes
\* decode as UTF-8.
File(stem, ext, content, decodable) ==
    [name |-> [stem |-> stem, ext |-> ext], content |-> content,
     decodable |-> decodable]

F_apples == File("apples", "txt", T_apples, TRUE)
F_oranges == File("oranges", "txt", T_oranges, TRUE)
F_blank == File("blank", "txt", T_blank, TRUE)
F_punct == File("punct", "text", T_punct, TRUE)
F_binary == File("binary", "txt", T_undecodable, FALSE)

Files == {F_apples, F_oranges, F_blank, F_punct, F_binary}

\* lists of distinct files, at most MaxFiles long
FileLists(pool) ==
    UNION {{fs \in [1..n -> pool] : \A i, j \in 1..n : i # j => fs[i] # fs[j]}
           : n \in 0..MaxFiles}

----------------------------------------------------------------------------
\* Fixed-point arithmetic

RECURSIVE SqrtSearch(_, _, _)
SqrtSearch(n, lo, hi) ==
    IF lo >= hi THEN lo
    ELSE LET mid == (lo + hi + 1) \div 2
         IN IF mid * mid <= n THEN SqrtSearch(n, mid, hi)
            ELSE SqrtSearch(n, lo, mid - 1)

\* floor of the square root
ISqrt(n) == SqrtSearch(n, 0, IF n < 46340 THEN n ELSE 46340)

RECURSIVE SumOver(_, _)
SumOver(S, v) ==
    IF S = {} THEN 0
    ELSE LET t == CHOOSE x \in S : TRUE
         IN v[t] + SumOver(S \ {t}, v)

\* 1000 * ln(k), k = 1..8
LnMilli == <<0, 693, 1099, 1386, 1609, 1792, 1946, 2079>>

----------------------------------------------------------------------------
\* TfidfVectorizer and cosine_similarity (scikit-learn, as the code uses them)

\* vocabulary_ after fit: the distinct tokens of the corpus
Vocabulary(docs) == UNION {Range(Tokenize(docs[i])) : i \in 1..Len(docs)}

\* document frequency of a term
Df(docs, t) == Cardinality({i \in 1..Len(docs) : t \in Range(Tokenize(docs[i]))})

\* smooth idf: ln((1 + n) / (1 + df)) + 1, in thousandths
Idf(n, df) == LnMilli[1 + n] - LnMilli[1 + df] + 1000

\* sklearn.preprocessing.normalize, norm='l2': a zero row stays zero
Normalize(v) ==
    LET norm == ISqrt(SumOver(DOMAIN v, [t \in DOMAIN v |-> v[t] * v[t]]))
    IN IF norm = 0 THEN v
       ELSE [t \in DOMAIN v |-> (v[t] * Scale) \div norm]

UnfittedVectorizer == [kind |-> "unfitted"]

\* the vectorizer after a successful fit over docs
FittedVectorizer(docs) ==
    LET vocabulary == Vocabulary(docs)
    IN [kind |-> "fitted",
        vocabulary |-> vocabulary,
        idf |-> [t \in vocabulary |-> Idf(Len(docs), Df(docs, t))]]

\* fit raises ValueError("empty vocabulary; ...") when no term is found
FitRaises(docs) == Vocabulary(docs) = {}

\* vectorizer.transform([text])[0]: terms outside the vocabulary are ignored
Transform(vz, text) ==
    LET tokens == Tokenize(text)
    IN Normalize([t \in vz.vocabulary |-> Count(tokens, t) * vz.idf[t]])

\* fit_transform(docs): one row per document
FitTransform(docs) ==
    LET fitted == FittedVectorizer(docs)
    IN [kind |-> "matrix",
        rows |-> [i \in 1..Len(docs) |-> Transform(fitted, docs[i])]]

\* every corpus a load can hold
Corpora == UNION {[1..n -> {f.content : f \in Files}] : n \in 0..MaxFiles}

\* what fit_transform builds from each corpus; @@ tabulates the function, so
\* that each fit is computed once
Fitted ==
    [docs \in Corpora |->
        IF FitRaises(docs) THEN NoneVal
        ELSE [kind |-> "model", vectorizer |-> FittedVectorizer(docs),
              document_vectors |-> FitTransform(docs)]] @@ <<>>

Dot(a, b) == SumOver(DOMAIN a, [t \in DOMAIN a |-> a[t] * b[t]])

\* cosine_similarity(query_vector, document_vectors)[0]: both sides are
\* normalised again, then multiplied
CosineSimilarity(qv, rows) ==
    LET q == Normalize(qv)
    IN [i \in 1..Len(rows) |-> Dot(q, Normalize(rows[i])) \div Scale]

----------------------------------------------------------------------------
\* numpy

\* np.argmax: the first index holding the maximum
ArgMax(sims) ==
    CHOOSE i \in 1..Len(sims) :
        /\ \A j \in 1..Len(sims) : sims[j] <= sims[i]
        /\ \A j \in 1..(i - 1) : sims[j] < sims[i]

\* np.argsort, kind='quicksort': ascending by value.  The order of equal
\* values is not part of its contract: ties is how this build orders them.
ArgSort(sims, ties) ==
    LET n == Len(sims)
        Before(i, j) ==
            \/ sims[i] < sims[j]
            \/ /\ sims[i] = sims[j]
               /\ IF ties = "index_ascending" THEN i < j ELSE i > j
    IN [k \in 1..n |->
          CHOOSE i \in 1..n : Cardinality({j \in 1..n : Before(j, i)}) = k - 1]

\* s[::-1]
Reverse(s) == [k \in 1..Len(s) |-> s[Len(s) + 1 - k]]

\* mutant: the [::-1] forgotten
RankedIndices_not_reversed(sims, ties) == ArgSort(sims, ties)

\* np.argsort(similarities)[::-1]
RankedIndices(sims, ties) == Reverse(ArgSort(sims, ties))

----------------------------------------------------------------------------
\* State

VARIABLES
    entry,             \* which program runs: "web" (app.py) or "cli" (simple_rag.py)
    argsort_ties,      \* how this build's np.argsort orders equal values
    documents,         \* session_state.documents / self.documents
    document_names,    \* session_state.document_names / self.document_names
    vectorizer,        \* session_state.vectorizer / self.vectorizer
    document_vectors,  \* session_state.document_vectors / self.document_vectors
    vectorized,        \* session_state.vectorized (web only)
    last_query,        \* session_state.last_query (web only)
    pc,                \* position of SimpleRAG.run (cli only)
    op,                \* what the last operation did
    fit_input,         \* the corpus the last operation passed to fit_transform
    query,             \* the query of the last search
    query_vector,      \* the query vector the last search built
    result,            \* what the last search returned
    ranked_indices     \* the ranking the last search displayed

model == <<documents, document_names, vectorizer, document_vectors, vectorized>>

vars == <<entry, argsort_ties, documents, document_names, vectorizer,
          document_vectors, vectorized, last_query, pc, op, fit_input,
          query, query_vector, result, ranked_indices>>

Str(text) == [kind |-> "str", text |-> text]

Corpus(docs) == [kind |-> "corpus", docs |-> docs]

Contents(files) == [i \in 1..Len(files) |-> files[i].content]

Names(files) == [i \in 1..Len(files) |-> files[i].name]

\* the files whose content passes `if content.strip():`
Usable(files) == SelectSeq(files, LAMBDA f : StripNonEmpty(f.content))

Init ==
    /\ entry \in {"web", "cli"}
    /\ argsort_ties \in {"index_ascending", "index_descending"}
    /\ documents = <<>>
    /\ document_names = <<>>
    /\ vectorizer = IF entry = "web" THEN NoneVal ELSE UnfittedVectorizer
    /\ document_vectors = NoneVal
    /\ vectorized = FALSE
    /\ last_query = NoneVal
    /\ pc = IF entry = "web" THEN "serving" ELSE "load"
    /\ op = "init"
    /\ fit_input = NoneVal
    /\ query = Q_empty
    /\ query_vector = NoneVal
    /\ result = NoneVal
    /\ ranked_indices = NoneVal

\* a script run or prompt that performs no search has no search results
NoSearch ==
    /\ query' = Q_empty
    /\ query_vector' = NoneVal
    /\ result' = NoneVal
    /\ ranked_indices' = NoneVal

----------------------------------------------------------------------------
\* app.py

\* mutant: `vectorized = True` moved out of the `if`
vectorize_documents_flag_unconditional(docs, vz, dv, vd) ==
    IF Len(docs) > 0 /\ ~FitRaises(docs)
    THEN [ret |-> "True", vectorizer |-> Fitted[docs].vectorizer,
          document_vectors |-> Fitted[docs].document_vectors, vectorized |-> TRUE,
          fit_input |-> Corpus(docs)]
    ELSE [ret |-> "False", vectorizer |-> vz, document_vectors |-> dv,
          vectorized |-> TRUE, fit_input |-> NoneVal]

\* vectorize_documents(), called with the session holding docs, vz, dv, vd
vectorize_documents(docs, vz, dv, vd) ==
    IF Len(docs) > 0
    THEN IF FitRaises(docs)
         THEN [ret |-> "ValueError", vectorizer |-> UnfittedVectorizer,
               document_vectors |-> dv, vectorized |-> vd,
               fit_input |-> Corpus(docs)]
         ELSE [ret |-> "True", vectorizer |-> Fitted[docs].vectorizer,
               document_vectors |-> Fitted[docs].document_vectors, vectorized |-> TRUE,
               fit_input |-> Corpus(docs)]
    ELSE [ret |-> "False", vectorizer |-> vz, document_vectors |-> dv,
          vectorized |-> vd, fit_input |-> NoneVal]

\* the files the upload loop reads before a decode error ends the script run
ReadBeforeError(files) ==
    IF \A i \in 1..Len(files) : files[i].decodable THEN files
    ELSE LET k == CHOOSE i \in 1..Len(files) :
                     /\ ~files[i].decodable
                     /\ \A j \in 1..(i - 1) : files[j].decodable
         IN SubSeq(files, 1, k - 1)

\* the file uploader accepts type=['txt', 'text']
Uploadable == {f \in Files : f.name.ext \in {"txt", "text"}}

\* the "Load Documents" button
LoadDocuments(uploaded_files) ==
    /\ entry = "web"
    /\ Len(uploaded_files) > 0
    /\ LET kept == Usable(ReadBeforeError(uploaded_files))
           raised == \E i \in 1..Len(uploaded_files) : ~uploaded_files[i].decodable
           v == vectorize_documents(Contents(kept), vectorizer, document_vectors, FALSE)
       IN /\ documents' = Contents(kept)
          /\ document_names' = Names(kept)
          /\ IF raised
             THEN /\ vectorized' = FALSE
                  /\ UNCHANGED <<vectorizer, document_vectors>>
                  /\ fit_input' = NoneVal
                  /\ op' = "load_UnicodeDecodeError"
             ELSE /\ vectorizer' = v.vectorizer
                  /\ document_vectors' = v.document_vectors
                  /\ vectorized' = v.vectorized
                  /\ fit_input' = v.fit_input
                  /\ op' = CASE v.ret = "True" -> "load_success"
                             [] v.ret = "False" -> "load_failed_to_vectorize"
                             [] OTHER -> "load_ValueError"
    /\ NoSearch
    /\ UNCHANGED <<entry, argsort_ties, last_query, pc>>

\* the "Load Sample Documents" button; exists and listing are
\* os.path.exists(sample_dir) and os.listdir(sample_dir)
LoadSampleDocuments(exists, listing) ==
    /\ entry = "web"
    /\ LET txt == SelectSeq(listing, LAMBDA f : f.name.ext = "txt")
           kept == IF exists
                   THEN Usable(SelectSeq(txt, LAMBDA f : f.decodable))
                   ELSE <<>>
           v == vectorize_documents(Contents(kept), vectorizer, document_vectors, FALSE)
       IN /\ documents' = Contents(kept)
          /\ document_names' = Names(kept)
          /\ IF exists
             THEN /\ vectorizer' = v.vectorizer
                  /\ document_vectors' = v.document_vectors
                  /\ vectorized' = v.vectorized
                  /\ fit_input' = v.fit_input
                  /\ op' = CASE v.ret = "True" -> "sample_success"
                             [] v.ret = "False" -> "sample_not_vectorized"
                             [] OTHER -> "sample_ValueError"
             ELSE /\ vectorized' = FALSE
                  /\ UNCHANGED <<vectorizer, document_vectors>>
                  /\ fit_input' = NoneVal
                  /\ op' = "sample_folder_not_found"
    /\ NoSearch
    /\ UNCHANGED <<entry, argsort_ties, last_query, pc>>

\* transform the query, score every document, take the arg-max
RankQuery(vz, dv, q) ==
    IF vz.kind = "None" THEN [result |-> [kind |-> "AttributeError"], query_vector |-> NoneVal]
    ELSE IF vz.kind = "unfitted" THEN [result |-> [kind |-> "NotFittedError"], query_vector |-> NoneVal]
    ELSE LET query_vector_ == Transform(vz, q)
             similarities == CosineSimilarity(query_vector_, dv.rows)
             most_relevant_idx == ArgMax(similarities)
         IN [result |-> [kind |-> "result",
                         most_relevant_idx |-> most_relevant_idx,
                         max_similarity |-> similarities[most_relevant_idx],
                         similarities |-> similarities],
             query_vector |-> [kind |-> "vector", weights |-> query_vector_]]

\* mutant: the `not st.session_state.vectorized` test dropped
search_documents_unguarded(q) ==
    IF ~StripNonEmpty(q)
    THEN [result |-> NoneVal, query_vector |-> NoneVal,
          vectorizer |-> vectorizer, document_vectors |-> document_vectors]
    ELSE LET r == RankQuery(vectorizer, document_vectors, q)
         IN [result |-> r.result, query_vector |-> r.query_vector,
             vectorizer |-> vectorizer, document_vectors |-> document_vectors]

\* mutant: `not query` in place of `not query.strip()`
search_documents_no_strip(q) ==
    IF ~vectorized \/ q = <<>>
    THEN [result |-> NoneVal, query_vector |-> NoneVal,
          vectorizer |-> vectorizer, document_vectors |-> document_vectors]
    ELSE LET r == RankQuery(vectorizer, document_vectors, q)
         IN [result |-> r.result, query_vector |-> r.query_vector,
             vectorizer |-> vectorizer, document_vectors |-> document_vectors]

\* mutant: fit_transform([query]) in place of transform([query]), which
\* refits the session's vectorizer on the query
search_documents_refit(q) ==
    IF ~vectorized \/ ~StripNonEmpty(q)
    THEN [result |-> NoneVal, query_vector |-> NoneVal,
          vectorizer |-> vectorizer, document_vectors |-> document_vectors]
    ELSE LET r == RankQuery(vectorizer, document_vectors, q)
         IN [result |-> r.result, query_vector |-> r.query_vector,
             vectorizer |-> FittedVectorizer(<<q>>),
             document_vectors |-> document_vectors]

\* search_documents(query): what it returns and what it leaves in the session
search_documents(q) ==
    IF ~vectorized \/ ~StripNonEmpty(q)
    THEN [result |-> NoneVal, query_vector |-> NoneVal,
          vectorizer |-> vectorizer, document_vectors |-> document_vectors]
    ELSE LET r == RankQuery(vectorizer, document_vectors, q)
         IN [result |-> r.result, query_vector |-> r.query_vector,
             vectorizer |-> vectorizer, document_vectors |-> document_vectors]

\* the ranking shown for a result: np.argsort(similarities)[::-1]
Ranking(res) ==
    IF res.kind = "result"
    THEN [kind |-> "ranked", order |-> RankedIndices(res.similarities, argsort_ties)]
    ELSE NoneVal

\* a call of search_documents in any session state
SearchDocuments(q) ==
    /\ entry = "web"
    /\ LET s == search_documents(q)
       IN /\ result' = s.result
          /\ query_vector' = s.query_vector
          /\ vectorizer' = s.vectorizer
          /\ document_vectors' = s.document_vectors
    /\ query' = q
    /\ ranked_indices' = NoneVal
    /\ fit_input' = NoneVal
    /\ op' = "search_documents"
    /\ UNCHANGED <<entry, argsort_ties, documents, document_names, vectorized,
                   last_query, pc>>

\* the query section of main: shown only when vectorized
MainSearch(q, search_button) ==
    /\ entry = "web"
    /\ vectorized
    /\ q # Q_empty
    /\ search_button \/ last_query # Str(q)
    /\ last_query' = Str(q)
    /\ LET s == search_documents(q)
       IN /\ result' = s.result
          /\ query_vector' = s.query_vector
          /\ vectorizer' = s.vectorizer
          /\ document_vectors' = s.document_vectors
          /\ ranked_indices' = Ranking(s.result)
    /\ query' = q
    /\ fit_input' = NoneVal
    /\ op' = "main_search"
    /\ UNCHANGED <<entry, argsort_ties, documents, document_names, vectorized, pc>>

----------------------------------------------------------------------------
\* simple_rag.py

\* what the user types at "Enter document path": a file, or a path that
\* does not exist
Paths == Files \cup {[kind |-> "missing"]}

\* one round of the load_documents loop with a path other than 'done'
CliEnterPath(path) ==
    /\ entry = "cli"
    /\ pc = "load"
    /\ IF path \notin Files
       THEN /\ op' = "cli_file_not_found"
            /\ UNCHANGED <<documents, document_names>>
       ELSE IF ~path.decodable
       THEN /\ op' = "cli_error_reading_file"
            /\ UNCHANGED <<documents, document_names>>
       ELSE IF ~StripNonEmpty(path.content)
       THEN /\ op' = "cli_file_is_empty"
            /\ UNCHANGED <<documents, document_names>>
       ELSE /\ Len(documents) < MaxFiles
            /\ documents' = Append(documents, path.content)
            /\ document_names' = Append(document_names, path.name)
            /\ op' = "cli_loaded"
    /\ NoSearch
    /\ UNCHANGED <<entry, argsort_ties, vectorizer, document_vectors, vectorized,
                   last_query, pc, fit_input>>

\* SimpleRAG.vectorize_documents on an object holding docs, vz, dv
cli_vectorize_documents(docs, vz, dv) ==
    IF FitRaises(docs)
    THEN [ret |-> "ValueError", vectorizer |-> vz, document_vectors |-> dv,
          fit_input |-> Corpus(docs)]
    ELSE [ret |-> "None", vectorizer |-> Fitted[docs].vectorizer,
          document_vectors |-> Fitted[docs].document_vectors,
          fit_input |-> Corpus(docs)]

\* the user types 'done': with no document the loop goes on; otherwise
\* load_documents returns and run calls vectorize_documents
CliDone ==
    /\ entry = "cli"
    /\ pc = "load"
    /\ IF Len(documents) = 0
       THEN /\ op' = "cli_no_documents_loaded"
            /\ UNCHANGED <<vectorizer, document_vectors, pc, fit_input>>
       ELSE LET v == cli_vectorize_documents(documents, vectorizer, document_vectors)
            IN /\ vectorizer' = v.vectorizer
               /\ document_vectors' = v.document_vectors
               /\ fit_input' = v.fit_input
               /\ pc' = IF v.ret = "ValueError" THEN "crashed" ELSE "query"
               /\ op' = IF v.ret = "ValueError" THEN "cli_ValueError" ELSE "cli_vectorized"
    /\ NoSearch
    /\ UNCHANGED <<entry, argsort_ties, documents, document_names, vectorized,
                   last_query>>

\* SimpleRAG.query_documents with the typed line q
query_documents(q) ==
    IF ~StripNonEmpty(q)
    THEN [result |-> NoneVal, query_vector |-> NoneVal,
          vectorizer |-> vectorizer, document_vectors |-> document_vectors]
    ELSE LET r == RankQuery(vectorizer, document_vectors, Strip(q))
         IN [result |-> r.result, query_vector |-> r.query_vector,
             vectorizer |-> vectorizer, document_vectors |-> document_vectors]

\* one round of the query loop of run: query_documents, display_results
\* when there is a result, then "another query?"
CliQuery(q, another) ==
    /\ entry = "cli"
    /\ pc = "query"
    /\ LET s == query_documents(q)
       IN /\ result' = s.result
          /\ query_vector' = s.query_vector
          /\ vectorizer' = s.vectorizer
          /\ document_vectors' = s.document_vectors
          /\ ranked_indices' = Ranking(s.result)
    /\ query' = q
    /\ fit_input' = NoneVal
    /\ pc' = IF another THEN "query" ELSE "done"
    /\ op' = "cli_query"
    /\ UNCHANGED <<entry, argsort_ties, documents, document_names, vectorized,
                   last_query>>

----------------------------------------------------------------------------

\* what the user can select in the file uploader
Uploads == FileLists(Uploadable)

\* what os.listdir can return for the sample folder
Listings == FileLists(Files)

Next ==
    \/ \E uploaded_files \in Uploads : LoadDocuments(uploaded_files)
    \/ \E listing \in Listings : LoadSampleDocuments(TRUE, listing)
    \/ LoadSampleDocuments(FALSE, <<>>)
    \/ \E q \in Queries : SearchDocuments(q)
    \/ \E q \in Queries, search_button \in BOOLEAN : MainSearch(q, search_button)
    \/ \E path \in Paths : CliEnterPath(path)
    \/ CliDone
    \/ \E q \in Queries, another \in BOOLEAN : CliQuery(q, another)

Spec == Init /\ [][Next]_vars

----------------------------------------------------------------------------
\* Properties

SearchOps == {"search_documents", "main_search", "cli_query"}

\* a search can compute a ranking: the vectorized flag in the web app, after
\* vectorize_documents in the command-line program
Rankable == IF entry = "web" THEN vectorized ELSE pc \in {"query", "done"}

\* no fit has succeeded yet
NeverFitted == document_vectors = NoneVal

Ranked == ranked_indices.kind = "ranked"

\* the query has a token and none of its tokens is in the fitted vocabulary
AllTermsUnknown ==
    /\ vectorizer.kind = "fitted"
    /\ Tokenize(query) # <<>>
    /\ Range(Tokenize(query)) \cap vectorizer.vocabulary = {}

\* C1: the ranked result holds every loaded document exactly once, in
\* descending order of score, and documents of equal score appear in
\* ascending doc_id order.
C1_RankedDescendingTiesAscending ==
    Ranked =>
        LET order == ranked_indices.order
            sims == result.similarities
        IN /\ Len(order) = Len(documents)
           /\ \A d \in 1..Len(documents) :
                 Cardinality({k \in 1..Len(order) : order[k] = d}) = 1
           /\ \A a, b \in 1..Len(order) :
                 a < b => \/ sims[order[a]] > sims[order[b]]
                          \/ /\ sims[order[a]] = sims[order[b]]
                             /\ order[a] < order[b]

\* C2: a load that fails because no usable document text was supplied (only
\* blank files, an empty or missing sample folder) leaves documents,
\* document_names, the vectorizer, document_vectors and the vectorized flag
\* as they were before it.
C2_FailedLoadKeepsCorpus ==
    [][op' \in {"load_failed_to_vectorize", "sample_not_vectorized",
                "sample_folder_not_found"}
       => UNCHANGED model]_vars

\* C3: whenever a search can compute a ranking, document_vectors has one row
\* per document, aligned with documents and document_names, and it and the
\* vectorizer are the fit over exactly the current documents; a ranking is
\* only ever computed in such a state, and over all current documents.
C3_RankableModelIsFitOfDocuments ==
    /\ Rankable =>
          /\ Len(documents) > 0
          /\ Len(document_names) = Len(documents)
          /\ \A i \in 1..Len(documents) :
                \E f \in Files : /\ f.name = document_names[i]
                                 /\ f.content = documents[i]
          /\ document_vectors.kind = "matrix"
          /\ Len(document_vectors.rows) = Len(documents)
          /\ vectorizer = FittedVectorizer(documents)
          /\ document_vectors = FitTransform(documents)
    /\ result # NoneVal =>
          /\ Rankable
          /\ result.kind = "result"
          /\ Len(result.similarities) = Len(documents)

C3_Witness ==
    /\ entry = "web"
    /\ op = "main_search"
    /\ Len(documents) = 2
    /\ result.kind = "result"
    /\ Ranked

C5_BlankQueryNoRanking ==
    [][(op' \in SearchOps /\ Rankable /\ ~StripNonEmpty(query'))
       => /\ result' = NoneVal
          /\ query_vector' = NoneVal
          /\ ranked_indices' = NoneVal
          /\ UNCHANGED model]_vars

C5_Witness ==
    /\ op \in SearchOps
    /\ Rankable
    /\ query = Q_blank
    /\ result = NoneVal

\* C6: fit is never run on a corpus in which no document contributes a term
\* (an empty corpus, or documents that tokenize to nothing), and no model is
\* built from one.
C6_FitNeverRunOnTermlessCorpus ==
    /\ fit_input.kind = "corpus" => Vocabulary(fit_input.docs) # {}
    /\ Rankable => Vocabulary(documents) # {}

\* C7: a query whose terms are all absent from the fitted vocabulary gives
\* the zero query vector, a score of exactly 0 for every document, and the
\* documents in ascending doc_id order.
C7_UnknownTermsZeroAscending ==
    (Ranked /\ AllTermsUnknown) =>
        /\ \A t \in vectorizer.vocabulary : query_vector.weights[t] = 0
        /\ \A i \in 1..Len(documents) : result.similarities[i] = 0
        /\ ranked_indices.order = [k \in 1..Len(documents) |-> k]

\* C8: a search leaves documents, document_names, the vectorizer (so its
\* vocabulary), document_vectors and the vectorized flag unchanged; and the
\* scores a search returns are those of the query against the fit of the
\* current documents, whatever searches came before.
C8_SearchHasNoSideEffects ==
    /\ [][op' \in SearchOps => UNCHANGED model]_vars
    /\ [](op \in SearchOps /\ result.kind = "result" =>
            result.similarities =
                CosineSimilarity(Transform(FittedVectorizer(documents), query),
                                 FitTransform(documents).rows))

C8_Witness ==
    /\ op \in SearchOps
    /\ query = Q_apples
    /\ Len(documents) = 2
    /\ result.kind = "result"

\* the scenario of C9: corpus {"apples are red fruit", "oranges are citrus
\* fruit"}, query "tell me about apples"
C9_Scenario ==
    /\ documents = <<T_apples, T_oranges>>
    /\ query = Q_apples
    /\ result.kind = "result"

\* C9 as stated: document 0 is ranked first, its score is greater than
\* document 1's score, and document 1's score is greater than 0.
C9_ScenarioBothScoresPositive ==
    C9_Scenario =>
        /\ result.most_relevant_idx = 1
        /\ Ranked => ranked_indices.order[1] = 1
        /\ result.similarities[1] > result.similarities[2]
        /\ result.similarities[2] > 0

\* C9 as amended: document 0 is ranked first with a score greater than 0,
\* and document 1, which shares no term with the query, scores exactly 0.
C9_ScenarioSecondScoreZero ==
    C9_Scenario =>
        /\ result.most_relevant_idx = 1
        /\ result.max_similarity = result.similarities[1]
        /\ Ranked => ranked_indices.order = <<1, 2>>
        /\ result.similarities[1] > 0
        /\ result.similarities[2] = 0

C9_Witness == C9_Scenario /\ Ranked

\* C10: the document reported as most relevant (the arg-max) is the document
\* at rank 1 of the ranked list built from the same similarities, also when
\* several documents tie for the highest score.
C10_ArgMaxIsRankOne ==
    Ranked => result.most_relevant_idx = ranked_indices.order[1]

====
